---- MODULE Spec2Model ----
(***************************************************************************)
(* The websocket session of the ftx client (src/src/ws/mod.rs): the        *)
(* subscribe / unsubscribe protocol with its bounded confirmation wait,    *)
(* the keepalive ping, the demultiplexer (handle_response) and the event   *)
(* stream (poll_next).                                                     *)
(*                                                                         *)
(* The session is used by one caller at a time.  A call that awaits the    *)
(* network is a sequence of steps, one per completion of next_response     *)
(* (one inbound message, one timer tick or one error); everything the      *)
(* code does between two awaits belongs to one step.                       *)
(***************************************************************************)
EXTENDS Integers, Sequences, FiniteSets, TLC

\* ------------------------------------------------------------------ bounds
\* Longest channels Vec the caller lets the session grow to.
MaxChannels == 2
\* Longest channel list passed to one subscribe / unsubscribe call.
MaxReq == 2
\* Most events waiting in the queue: the server sends no further payload
\* while the queue is that long.
MaxBuf == 2
\* Most pong / non-text messages the server sends during one confirmation wait.
MaxSkipped == 1
\* Most keepalive ticks that fall into one confirmation wait.
MaxPings == 1

\* `for _ in 0..100` of subscribe_or_unsubscribe.
ConfirmationAttempts == 100

\* ---------------------------------------------------------------- channels
\* Channel::Trades(symbol), Channel::Fills, Channel::Orders.  The variants
\* without a symbol carry the empty symbol, as the op frame does.
Trades(symbol) == [tag |-> "Trades", symbol |-> symbol]
Fills == [tag |-> "Fills", symbol |-> ""]
Orders == [tag |-> "Orders", symbol |-> ""]

Channels == {Trades("BTC-PERP"), Fills, Orders}

\* All sequences over S of length at most n.
SeqsUpTo(S, n) == UNION {[1..k -> S] : k \in 0..n}

ReqLists == SeqsUpTo(Channels, MaxReq)
ReqListsData == {<<Trades("BTC-PERP")>>, <<Trades("BTC-PERP"), Fills>>}

\* `channel == &Channel::Fills || channel == &Channel::Orders`
RequiresAuthOnlyFills(channel) == channel = Fills
RequiresAuth(channel) == channel = Fills \/ channel = Orders

\* Vec::contains
contains(vec, c) == \E i \in 1..Len(vec) : vec[i] = c

RangeOf(s) == {s[i] : i \in 1..Len(s)}

\* The loop at the head of subscribe: every channel is pushed until the
\* first private channel of an unauthenticated session ends the call.
subscribe_loopChecksOnly(chs, vec, auth) ==
    [err |-> ~auth /\ \E i \in 1..Len(chs) : RequiresAuth(chs[i]),
     channels |-> vec]
RECURSIVE subscribe_loop(_, _, _)
subscribe_loop(chs, vec, auth) ==
    IF chs = <<>> THEN [err |-> FALSE, channels |-> vec]
    ELSE IF RequiresAuth(Head(chs)) /\ ~auth THEN [err |-> TRUE, channels |-> vec]
    ELSE subscribe_loop(Tail(chs), Append(vec, Head(chs)), auth)

\* The loop at the head of unsubscribe: TRUE when some requested channel is
\* not in the Vec.
unsubscribe_rejectsFirst(chs, vec) == chs # <<>> /\ ~contains(vec, chs[1])
unsubscribe_rejects(chs, vec) == \E i \in 1..Len(chs) : ~contains(vec, chs[i])

\* self.channels.retain(|c| !channels.contains(c))
retainFirstOnly(vec, chs) ==
    IF \E i \in 1..Len(vec) : contains(chs, vec[i])
    THEN LET k == CHOOSE i \in 1..Len(vec) :
                    /\ contains(chs, vec[i])
                    /\ \A j \in 1..(i-1) : ~contains(chs, vec[j])
         IN  SubSeq(vec, 1, k-1) \o SubSeq(vec, k+1, Len(vec))
    ELSE vec
retain(vec, chs) == SelectSeq(vec, LAMBDA c : ~contains(chs, c))

\* The (channel, symbol) pair and the op frame of subscribe_or_unsubscribe.
WireName(channel) ==
    CASE channel.tag = "Orderbook" -> "orderbook"
      [] channel.tag = "Trades" -> "trades"
      [] channel.tag = "Ticker" -> "ticker"
      [] channel.tag = "Fills" -> "fills"
      [] channel.tag = "Orders" -> "orders"

OpFrame(op, channel) ==
    [op |-> op, channel |-> WireName(channel), market |-> channel.symbol]

LoginFrame == [op |-> "login", channel |-> "", market |-> ""]

PingFrame == [op |-> "ping", channel |-> "", market |-> ""]

\* `let is_authenticated = key_secret.is_some();`
IsAuthenticatedNever(credentials) == FALSE
IsAuthenticated(credentials) == credentials

\* The frames connect_with_endpoint sends: the login frame, when credentials
\* are given.
ConnectFramesAlways(credentials) == <<LoginFrame>>
ConnectFrames(credentials) == IF credentials THEN <<LoginFrame>> ELSE <<>>

\* ping(): one ping frame is sent; the channels and the buffer are not
\* touched.  ws holds the channels, the buffer and the count of pings sent.
pingClearsBuffer(ws) == [ws EXCEPT !.buf = <<>>, !.pings = @ + 1]
pingTwice(ws) == [ws EXCEPT !.pings = @ + 2]
ping(ws) == [ws EXCEPT !.pings = @ + 1]

\* poll_next reads the network only when pop_front finds the buffer empty.
BufferEmptyOrNot(b) == TRUE
BufferEmpty(b) == b = <<>>

\* ------------------------------------------------------------------ frames
\* A decoded Response: its type, its market (NoMarket for None) and its data
\* (kind "None" for None; a Trades payload is a list of records, every other
\* payload one record).
NoMarket == "<none>"
NoData == [kind |-> "None", recs |-> <<>>]
Payload(kind, recs) == [kind |-> kind, recs |-> recs]
Response(type, market, data) == [type |-> type, market |-> market, data |-> data]

\* Frames of the control plane: confirmations and an error frame.
FramesCtl ==
    { Response("Subscribed", "BTC-PERP", NoData),
      Response("Unsubscribed", "BTC-PERP", NoData),
      Response("Error", NoMarket, NoData) }

\* Frames of the data plane.  Every payload record has its own number, so an
\* event names the frame it came from.
FramesData ==
    { Response("Subscribed", "BTC-PERP", NoData),
      Response("Unsubscribed", "BTC-PERP", NoData),
      Response("Pong", NoMarket, NoData),
      Response("Update", "BTC-PERP", Payload("Trades", <<1, 2>>)),
      Response("Update", NoMarket, Payload("Fill", <<3>>)),
      Response("Subscribed", "BTC-PERP", Payload("Ticker", <<4>>)),
      Response("Pong", "BTC-PERP", Payload("Trades", <<5, 6>>)),
      Response("Unsubscribed", "BTC-PERP", Payload("Trades", <<7, 8>>)) }

\* Frames that meet the keepalive timer and the end of the stream.
FramesKeepalive ==
    { Response("Subscribed", "BTC-PERP", NoData),
      Response("Unsubscribed", "BTC-PERP", NoData),
      Response("Pong", NoMarket, NoData),
      Response("Update", NoMarket, Payload("Fill", <<3>>)) }

\* Frames that fill the queue: a batch of trades and a fill.
FramesQueue ==
    { Response("Subscribed", "BTC-PERP", NoData),
      Response("Unsubscribed", "BTC-PERP", NoData),
      Response("Update", "BTC-PERP", Payload("Trades", <<1, 2>>)),
      Response("Update", NoMarket, Payload("Fill", <<3>>)) }

\* `if let Response { r#type: Type::Pong, .. } = response { continue; }`
SkipResponseAlways(response) == TRUE
SkipResponseNever(response) == FALSE
SkipResponse(response) == response.type = "Pong"

\* The two guarded match arms of the confirmation wait.
IsConfirmationEither(response, subscribe) ==
    response.type \in {"Subscribed", "Unsubscribed"}
IsConfirmation(response, subscribe) ==
    \/ response.type = "Subscribed" /\ subscribe
    \/ response.type = "Unsubscribed" /\ ~subscribe

Event(market, kind, rec) == [market |-> market, kind |-> kind, rec |-> rec]

\* handle_response: the events a response adds to the back of the buffer.
handle_responseReversed(b, response) ==
    LET data == response.data
        n == Len(data.recs)
    IN  CASE data.kind = "None" -> b
          [] data.kind = "Trades" ->
                b \o [i \in 1..n |-> Event(response.market, "Trade", data.recs[n + 1 - i])]
          [] OTHER -> Append(b, Event(response.market, data.kind, data.recs[1]))
handle_responseFront(b, response) ==
    LET data == response.data
    IN  CASE data.kind = "None" -> b
          [] data.kind = "Trades" ->
                [i \in 1..Len(data.recs) |->
                    Event(response.market, "Trade", data.recs[i])] \o b
          [] OTHER -> <<Event(response.market, data.kind, data.recs[1])>> \o b
handle_responseFirstTrade(b, response) ==
    LET data == response.data
    IN  CASE data.kind = "None" -> b
          [] OTHER ->
                Append(b, Event(response.market,
                                IF data.kind = "Trades" THEN "Trade" ELSE data.kind,
                                data.recs[1]))
handle_response(b, response) ==
    LET data == response.data
    IN  CASE data.kind = "None" -> b
          [] data.kind = "Trades" ->
                b \o [i \in 1..Len(data.recs) |->
                        Event(response.market, "Trade", data.recs[i])]
          [] data.kind = "OrderbookData" ->
                Append(b, Event(response.market, "OrderbookData", data.recs[1]))
          [] data.kind = "Fill" ->
                Append(b, Event(response.market, "Fill", data.recs[1]))
          [] data.kind = "Ticker" ->
                Append(b, Event(response.market, "Ticker", data.recs[1]))
          [] data.kind = "Order" ->
                Append(b, Event(response.market, "Order", data.recs[1]))

\* The `_ =>` arm of the confirmation wait.
WaitOtherwiseDropped(b, response) == b
WaitOtherwise(b, response) == handle_response(b, response)

\* The end of the `for _ in 0..100` loop.
AttemptsExhaustedLate(n) == n >= ConfirmationAttempts + 1
AttemptsExhausted(n) == n >= ConfirmationAttempts


\* ------------------------------------------------------------------- state
VARIABLES
    key_secret,         \* connect was given credentials (key_secret is Some)
    is_authenticated,   \* Ws::is_authenticated
    channels,           \* Ws::channels, a Vec
    buf,                \* Ws::buf, the queue of undelivered events
    closed,             \* the transport has reported the end of the stream
    pc,                 \* "idle": no call in flight; "wait": a confirmation wait
    call,               \* the call in flight, or the last one that returned
    req,                \* its channel list
    idx,                \* the position in req of the channel being confirmed
    count,              \* the responses the current wait has used up
    skipped,            \* the messages the current wait has read and skipped
    result,             \* what the last call returned ("Pending": nothing yet)
    out,                \* the event the last poll_next returned, or NoEvent
    prior,              \* channels when the call began
    sent,               \* the op frames the call has sent
    pings,              \* the ping frames the call has sent
    owed,               \* undelivered records of the frames given to the demultiplexer
    inOrder,            \* every delivery so far was the head of owed
    owedAll,            \* undelivered records of all frames that carried a payload
    allInOrder          \* every delivery so far was the head of owedAll

vars == <<key_secret, is_authenticated, channels, buf, closed, pc, call, req,
          idx, count, skipped, result, out, prior, sent, pings, owed, inOrder,
          owedAll, allInOrder>>

NoEvent == Event(NoMarket, "None", 0)

\* The records of a frame's payload, in payload order, paired with its market.
RecordsOf(f) ==
    [i \in 1..Len(f.data.recs) |->
        Event(f.market, IF f.data.kind = "Trades" THEN "Trade" ELSE f.data.kind,
              f.data.recs[i])]

\* The frame a confirmation wait of `call` is waiting for.
Expected(f) ==
    \/ call = "subscribe" /\ f.type = "Subscribed"
    \/ call \in {"unsubscribe", "unsubscribe_all"} /\ f.type = "Unsubscribed"

\* The server sends a payload only while the queue has room for it.
Room(f) ==
    /\ Len(buf) + Len(f.data.recs) <= MaxBuf
    /\ Len(owedAll) + Len(f.data.recs) <= MaxBuf

\* The bookkeeping of what is still to be delivered: o and oa are owed and
\* owedAll after the step's receipt, dl says that the step delivers event e.
Track(o, oa, dl, e) ==
    /\ owed' = IF dl /\ o # <<>> THEN Tail(o) ELSE o
    /\ inOrder' = (inOrder /\ (dl => (o # <<>> /\ Head(o) = e)))
    /\ allInOrder' = (allInOrder /\ (dl => (oa # <<>> /\ Head(oa) = e)))
    /\ owedAll' = IF ~allInOrder' THEN <<>> ELSE IF dl THEN Tail(oa) ELSE oa

NoTrack == UNCHANGED <<owed, inOrder, owedAll, allInOrder>>

\* connect_with_endpoint: the login frame is sent when credentials are given.
Init ==
    /\ key_secret \in BOOLEAN
    /\ is_authenticated = IsAuthenticated(key_secret)
    /\ channels = <<>>
    /\ buf = <<>>
    /\ closed = FALSE
    /\ pc = "idle"
    /\ call = "connect"
    /\ req = <<>>
    /\ idx = 0
    /\ count = 0
    /\ skipped = 0
    /\ result = "Ok"
    /\ out = NoEvent
    /\ prior = <<>>
    /\ sent = ConnectFrames(key_secret)
    /\ pings = 0
    /\ owed = <<>>
    /\ inOrder = TRUE
    /\ owedAll = <<>>
    /\ allInOrder = TRUE

\* ------------------------------------------------- subscribe / unsubscribe
OpOf(c) == IF c = "subscribe" THEN "subscribe" ELSE "unsubscribe"

\* The head of one iteration of 'channels: the op frame of channel i is sent
\* (ok) or the send fails and `?` ends the call.
SendOpAhead(c, chs, i, s, ok) ==
    /\ sent' = IF ok
               THEN s \o [j \in 1..(Len(chs) - i + 1) |->
                             OpFrame(OpOf(c), chs[i + j - 1])]
               ELSE s
    /\ pc' = IF ok THEN "wait" ELSE "idle"
    /\ result' = IF ok THEN "Pending" ELSE "TransportError"
    /\ idx' = IF ok THEN i ELSE 0
    /\ count' = 0
    /\ skipped' = 0
SendOpTwice(c, chs, i, s, ok) ==
    /\ sent' = IF ok
               THEN s \o <<OpFrame(OpOf(c), chs[i]), OpFrame(OpOf(c), chs[i])>>
               ELSE s
    /\ pc' = IF ok THEN "wait" ELSE "idle"
    /\ result' = IF ok THEN "Pending" ELSE "TransportError"
    /\ idx' = IF ok THEN i ELSE 0
    /\ count' = 0
    /\ skipped' = 0
SendOp(c, chs, i, s, ok) ==
    /\ sent' = IF ok THEN Append(s, OpFrame(OpOf(c), chs[i])) ELSE s
    /\ pc' = IF ok THEN "wait" ELSE "idle"
    /\ result' = IF ok THEN "Pending" ELSE "TransportError"
    /\ idx' = IF ok THEN i ELSE 0
    /\ count' = 0
    /\ skipped' = 0

\* The call returns r.  After MissingSubscriptionConfirmation idx keeps the
\* position of the channel that was not confirmed and count the number of
\* responses its wait used up.
ReturnSwallowed(r, s) ==
    /\ sent' = s
    /\ pc' = "idle"
    /\ result' = IF r \in {"TransportError", "DecodeError"} THEN "Ok" ELSE r
    /\ idx' = IF r = "MissingSubscriptionConfirmation" THEN idx ELSE 0
    /\ count' = IF r = "MissingSubscriptionConfirmation" THEN count + 1 ELSE 0
    /\ skipped' = 0
Return(r, s) ==
    /\ sent' = s
    /\ pc' = "idle"
    /\ result' = r
    /\ idx' = IF r = "MissingSubscriptionConfirmation" THEN idx ELSE 0
    /\ count' = IF r = "MissingSubscriptionConfirmation" THEN count + 1 ELSE 0
    /\ skipped' = 0

\* subscribe(chs)
Subscribe(chs, ok) ==
    /\ pc = "idle"
    /\ Len(channels) + Len(chs) <= MaxChannels
    /\ LET r == subscribe_loop(chs, channels, is_authenticated)
       IN  /\ channels' = r.channels
           /\ IF r.err THEN Return("SocketNotAuthenticated", <<>>)
              ELSE IF chs = <<>> THEN Return("Ok", <<>>)
              ELSE SendOp("subscribe", chs, 1, <<>>, ok)
    /\ call' = "subscribe"
    /\ req' = chs
    /\ prior' = channels
    /\ out' = NoEvent
    /\ pings' = 0
    /\ UNCHANGED <<key_secret, is_authenticated, buf, closed>>
    /\ NoTrack

\* unsubscribe(chs), and unsubscribe_all() when all: it passes a clone of
\* the Vec and clears the Vec after a successful return.
UnsubscribeCall(c, chs, ok) ==
    /\ pc = "idle"
    /\ IF unsubscribe_rejects(chs, channels)
       THEN /\ Return("NotSubscribedToThisChannel", <<>>)
            /\ channels' = channels
       ELSE IF chs = <<>>
       THEN /\ Return("Ok", <<>>)
            /\ channels' = IF c = "unsubscribe_all" THEN <<>> ELSE retain(channels, chs)
       ELSE /\ SendOp(c, chs, 1, <<>>, ok)
            /\ channels' = channels
    /\ call' = c
    /\ req' = chs
    /\ prior' = channels
    /\ out' = NoEvent
    /\ pings' = 0
    /\ UNCHANGED <<key_secret, is_authenticated, buf, closed>>
    /\ NoTrack

Unsubscribe(chs, ok) == UnsubscribeCall("unsubscribe", chs, ok)

UnsubscribeAll(ok) == UnsubscribeCall("unsubscribe_all", channels, ok)

\* A confirmation wait reads a text message that decodes to f.
WaitRecv(f, ok) ==
    /\ pc = "wait"
    /\ ~closed
    /\ Room(f)
    /\ IF SkipResponse(f)
       THEN \* next_response drops the pong and reads on
            /\ skipped < MaxSkipped
            /\ skipped' = skipped + 1
            /\ UNCHANGED <<channels, buf, pc, idx, count, result, sent>>
            /\ Track(owed, owedAll \o RecordsOf(f), FALSE, NoEvent)
       ELSE IF IsConfirmation(f, call = "subscribe")
       THEN \* continue 'channels
            /\ buf' = buf
            /\ Track(owed, owedAll \o RecordsOf(f), FALSE, NoEvent)
            /\ IF idx < Len(req)
               THEN /\ SendOp(call, req, idx + 1, sent, ok)
                    /\ channels' = channels
               ELSE /\ Return("Ok", sent)
                    /\ channels' =
                         CASE call = "subscribe" -> channels
                           [] call = "unsubscribe" -> retain(channels, req)
                           [] call = "unsubscribe_all" -> <<>>
       ELSE \* any other response goes to the buffer and uses up an attempt
            /\ buf' = WaitOtherwise(buf, f)
            /\ Track(owed \o RecordsOf(f), owedAll \o RecordsOf(f), FALSE, NoEvent)
            /\ channels' = channels
            /\ IF AttemptsExhausted(count + 1)
               THEN Return("MissingSubscriptionConfirmation", sent)
               ELSE /\ count' = count + 1
                    /\ UNCHANGED <<pc, idx, skipped, result, sent>>
    /\ UNCHANGED <<key_secret, is_authenticated, closed, call, req, out, prior, pings>>

\* A confirmation wait reads a message that is not text: next_response reads on.
WaitOtherCounted ==
    /\ pc = "wait"
    /\ ~closed
    /\ count + 1 < ConfirmationAttempts
    /\ count' = count + 1
    /\ UNCHANGED <<key_secret, is_authenticated, channels, buf, closed, pc, call,
                   req, idx, skipped, result, out, prior, sent, pings>>
    /\ NoTrack
WaitOther ==
    /\ pc = "wait"
    /\ ~closed
    /\ skipped < MaxSkipped
    /\ skipped' = skipped + 1
    /\ UNCHANGED <<key_secret, is_authenticated, channels, buf, closed, pc, call,
                   req, idx, count, result, out, prior, sent, pings>>
    /\ NoTrack

\* A confirmation wait reads a transport error, or text that does not decode.
WaitErr(e) ==
    /\ pc = "wait"
    /\ ~closed
    /\ Return(e, sent)
    /\ UNCHANGED <<key_secret, is_authenticated, channels, buf, closed, call, req,
                   out, prior, pings>>
    /\ NoTrack

\* The keepalive timer fires during a confirmation wait: ping() is sent, or
\* the send fails and the call returns the error.
WaitTick(ok) ==
    /\ pc = "wait"
    /\ pings < MaxPings
    /\ IF ok THEN UNCHANGED <<pc, result, idx, count, skipped, sent>>
       ELSE Return("TransportError", sent)
    /\ LET ws0 == [channels |-> channels, buf |-> buf, pings |-> pings]
           ws == IF ok THEN ping(ws0) ELSE ws0
       IN  channels' = ws.channels /\ buf' = ws.buf /\ pings' = ws.pings
    /\ UNCHANGED <<key_secret, is_authenticated, closed, call, req, out, prior>>
    /\ NoTrack

\* A confirmation wait reads the end of the stream: the read branch of the
\* select is disabled and the wait goes on, served by the timer alone.
WaitEnd ==
    /\ pc = "wait"
    /\ closed' = TRUE
    /\ UNCHANGED <<key_secret, is_authenticated, channels, buf, pc, call, req, idx,
                   count, skipped, result, out, prior, sent, pings>>
    /\ NoTrack

\* --------------------------------------------------------------- poll_next
\* What every poll does to the record of the last call.
PolledCall ==
    /\ pc' = "idle"
    /\ call' = "next"
    /\ req' = <<>>
    /\ idx' = 0
    /\ count' = 0
    /\ skipped' = 0
    /\ sent' = <<>>
    /\ UNCHANGED <<key_secret, is_authenticated>>

Polled == PolledCall /\ channels' = channels

\* poll_next finds an event in the buffer.
PollNextReadyNewest ==
    /\ pc = "idle"
    /\ buf # <<>>
    /\ out' = buf[Len(buf)]
    /\ buf' = SubSeq(buf, 1, Len(buf) - 1)
    /\ result' = "Event"
    /\ prior' = channels
    /\ Track(owed, owedAll, TRUE, buf[Len(buf)])
    /\ closed' = closed
    /\ pings' = 0
    /\ Polled
PollNextReady ==
    /\ pc = "idle"
    /\ buf # <<>>
    /\ out' = Head(buf)
    /\ buf' = Tail(buf)
    /\ result' = "Event"
    /\ prior' = channels
    /\ Track(owed, owedAll, TRUE, Head(buf))
    /\ closed' = closed
    /\ pings' = 0
    /\ Polled

\* poll_next finds the buffer empty and next_response reads text that
\* decodes to f; the loop goes round and pops what f put in the buffer.
PollNextRecv(f) ==
    /\ pc = "idle"
    /\ BufferEmpty(buf)
    /\ ~closed
    /\ Room(f)
    /\ LET b == IF SkipResponse(f) THEN buf ELSE handle_response(buf, f)
           o == IF SkipResponse(f) THEN owed ELSE owed \o RecordsOf(f)
           oa == owedAll \o RecordsOf(f)
       IN  IF b # <<>>
           THEN /\ out' = Head(b)
                /\ buf' = Tail(b)
                /\ result' = "Event"
                /\ Track(o, oa, TRUE, Head(b))
           ELSE /\ out' = NoEvent
                /\ buf' = b
                /\ result' = "Pending"
                /\ Track(o, oa, FALSE, NoEvent)
    /\ prior' = channels
    /\ closed' = closed
    /\ pings' = 0
    /\ Polled

\* poll_next reads a message that is not text.
PollNextOther ==
    /\ pc = "idle"
    /\ BufferEmpty(buf)
    /\ ~closed
    /\ out' = NoEvent
    /\ result' = "Pending"
    /\ prior' = channels
    /\ UNCHANGED <<buf, closed>>
    /\ pings' = 0
    /\ NoTrack
    /\ Polled

\* poll_next reads a transport error, or text that does not decode.
PollNextErr(e) ==
    /\ pc = "idle"
    /\ BufferEmpty(buf)
    /\ ~closed
    /\ out' = NoEvent
    /\ result' = e
    /\ prior' = channels
    /\ UNCHANGED <<buf, closed>>
    /\ pings' = 0
    /\ NoTrack
    /\ Polled

\* The keepalive timer fires during poll_next.
PollNextTick(ok) ==
    /\ pc = "idle"
    /\ BufferEmpty(buf)
    /\ out' = NoEvent
    /\ result' = IF ok THEN "Pending" ELSE "TransportError"
    /\ prior' = channels
    /\ LET ws0 == [channels |-> channels, buf |-> buf, pings |-> 0]
           ws == IF ok THEN ping(ws0) ELSE ws0
       IN  channels' = ws.channels /\ buf' = ws.buf /\ pings' = ws.pings
    /\ closed' = closed
    /\ NoTrack
    /\ PolledCall

\* poll_next reads the end of the stream: the read branch of the select is
\* disabled and the poll stays pending, served by the timer alone.
PollNextEnd ==
    /\ pc = "idle"
    /\ BufferEmpty(buf)
    /\ closed' = TRUE
    /\ out' = NoEvent
    /\ result' = "Pending"
    /\ prior' = channels
    /\ buf' = buf
    /\ pings' = 0
    /\ NoTrack
    /\ Polled

Errors == {"TransportError", "DecodeError"}

\* ---------------------------------------------------------- specifications
\* The control plane: every channel list, confirmations and error frames.
Next ==
    \/ \E chs \in ReqLists, ok \in BOOLEAN : Subscribe(chs, ok)
    \/ \E chs \in ReqLists, ok \in BOOLEAN : Unsubscribe(chs, ok)
    \/ \E ok \in BOOLEAN : UnsubscribeAll(ok)
    \/ \E f \in FramesCtl, ok \in BOOLEAN : WaitRecv(f, ok)
    \/ \E e \in Errors : WaitErr(e)
    \/ \E ok \in BOOLEAN : WaitTick(ok)
    \/ \E f \in FramesCtl : PollNextRecv(f)
    \/ \E e \in Errors : PollNextErr(e)
    \/ \E ok \in BOOLEAN : PollNextTick(ok)

Spec == Init /\ [][Next]_vars

\* The data plane: one public channel, frames with payloads, pongs and
\* messages that are not text.
NextData ==
    \/ \E chs \in ReqListsData, ok \in BOOLEAN : Subscribe(chs, ok)
    \/ \E chs \in ReqListsData, ok \in BOOLEAN : Unsubscribe(chs, ok)
    \/ \E f \in FramesData, ok \in BOOLEAN : WaitRecv(f, ok)
    \/ WaitOther
    \/ \E e \in Errors : WaitErr(e)
    \/ \E ok \in BOOLEAN : WaitTick(ok)
    \/ PollNextReady
    \/ \E f \in FramesData : PollNextRecv(f)
    \/ PollNextOther
    \/ \E e \in Errors : PollNextErr(e)
    \/ \E ok \in BOOLEAN : PollNextTick(ok)

\* The data plane is that of a session opened without credentials.
InitData == Init /\ ~is_authenticated

SpecData == InitData /\ [][NextData]_vars

\* The keepalive timer and the end of the stream: one channel, ticks that fall into the confirmation waits and into the
\* polls, and reads that find the stream ended.
NextKeepalive ==
    \/ \E ok \in BOOLEAN : Subscribe(<<Trades("BTC-PERP")>>, ok)
    \/ \E ok \in BOOLEAN : Unsubscribe(<<Trades("BTC-PERP")>>, ok)
    \/ \E f \in FramesKeepalive, ok \in BOOLEAN : WaitRecv(f, ok)
    \/ \E e \in Errors : WaitErr(e)
    \/ \E ok \in BOOLEAN : WaitTick(ok)
    \/ WaitEnd
    \/ PollNextReady
    \/ \E f \in FramesKeepalive : PollNextRecv(f)
    \/ \E e \in Errors : PollNextErr(e)
    \/ \E ok \in BOOLEAN : PollNextTick(ok)
    \/ PollNextEnd

SpecKeepalive == InitData /\ [][NextKeepalive]_vars

\* The transport delivers to a confirmation wait a frame of F that is not a
\* pong.
Delivers(F) == \E f \in F, ok \in BOOLEAN : f.type # "Pong" /\ WaitRecv(f, ok)

\* The keepalive specification with a transport that keeps delivering frames
\* to a confirmation wait for as long as the stream has not ended.
SpecKeepaliveFair == SpecKeepalive /\ WF_vars(Delivers(FramesKeepalive))

\* The queue and its consumer: one channel, frames that fill the queue in
\* confirmation waits and in polls, keepalive ticks in both.
NextQueue ==
    \/ \E ok \in BOOLEAN : Subscribe(<<Trades("BTC-PERP")>>, ok)
    \/ \E ok \in BOOLEAN : Unsubscribe(<<Trades("BTC-PERP")>>, ok)
    \/ \E f \in FramesQueue, ok \in BOOLEAN : WaitRecv(f, ok)
    \/ \E e \in Errors : WaitErr(e)
    \/ \E ok \in BOOLEAN : WaitTick(ok)
    \/ PollNextReady
    \/ \E f \in FramesQueue : PollNextRecv(f)
    \/ \E e \in Errors : PollNextErr(e)
    \/ \E ok \in BOOLEAN : PollNextTick(ok)

\* The transport keeps delivering frames to a confirmation wait and the
\* consumer keeps calling next(): a queued event is popped again and again.
SpecQueueFair ==
    /\ InitData
    /\ [][NextQueue]_vars
    /\ WF_vars(Delivers(FramesQueue))
    /\ SF_vars(PollNextReady)

\* ------------------------------------------------------------------ claims
NoDuplicates(vec) == \A i, j \in 1..Len(vec) : i # j => vec[i] # vec[j]

IsPrefix(s, t) == Len(s) <= Len(t) /\ SubSeq(t, 1, Len(s)) = s

Private(chs) == \E i \in 1..Len(chs) : chs[i] \in {Fills, Orders}

\* C1: after every subscribe call that returns success the channels Vec holds
\* exactly the channels of the prior Vec and of the request, each of them once.
C1_UnionWithoutDuplicates ==
    (pc = "idle" /\ call = "subscribe" /\ result = "Ok") =>
        /\ RangeOf(channels) = RangeOf(prior) \cup RangeOf(req)
        /\ NoDuplicates(channels)

\* C2: a subscribe call of an unauthenticated session whose list holds Fills
\* or Orders at any position has returned SocketNotAuthenticated and has sent
\* no frame.
C2_PrivateRejectedUnsent ==
    (call = "subscribe" /\ ~is_authenticated /\ Private(req)) =>
        (pc = "idle" /\ result = "SocketNotAuthenticated" /\ sent = <<>>)

C2_Witness ==
    /\ call = "subscribe"
    /\ result = "SocketNotAuthenticated"
    /\ req = <<Trades("BTC-PERP"), Orders>>

\* C3: a subscribe call rejected with SocketNotAuthenticated leaves the
\* channels Vec as it was before the call.
C3_RejectionKeepsChannels ==
    (call = "subscribe" /\ result = "SocketNotAuthenticated") => channels = prior

\* C4: an unsubscribe call naming a channel that is not in the Vec returns
\* NotSubscribedToThisChannel at once, sends no frame, and leaves the Vec and
\* the event queue as they were.
C4_UnsubscribeRejected ==
    [][\A chs \in ReqLists, ok \in BOOLEAN :
          (Unsubscribe(chs, ok) /\ ~(RangeOf(chs) \subseteq RangeOf(channels))) =>
              /\ pc' = "idle"
              /\ result' = "NotSubscribedToThisChannel"
              /\ sent' = <<>>
              /\ channels' = channels
              /\ buf' = buf]_vars

C4_Witness ==
    /\ call = "unsubscribe"
    /\ result = "NotSubscribedToThisChannel"
    /\ req = <<Trades("BTC-PERP"), Fills>>
    /\ contains(channels, Trades("BTC-PERP"))
    /\ buf # <<>>

\* C5: after an unsubscribe call that returns success the Vec is the prior
\* Vec without every copy of the requested channels, all other entries kept.
C5_UnsubscribeDifference ==
    (pc = "idle" /\ call = "unsubscribe" /\ result = "Ok") =>
        channels = SelectSeq(prior, LAMBDA c : c \notin RangeOf(req))

C5_Witness ==
    /\ pc = "idle"
    /\ call = "unsubscribe"
    /\ result = "Ok"
    /\ Len(prior) = 2
    /\ prior[1] # prior[2]
    /\ req = <<prior[1]>>
    /\ channels = <<prior[2]>>

\* The events of a list of trades.
TradeEvents(f) ==
    [i \in 1..Len(f.data.recs) |-> Event(f.market, "Trade", f.data.recs[i])]

\* Every step puts events at the back of the queue or takes the front one,
\* which next() delivers.
QueueIsFifo ==
    /\ pc = "wait" => IsPrefix(buf, buf')
    /\ PollNextReady => (<<out'>> \o buf' = buf)
    /\ (pc = "idle" /\ buf # <<>>) => (buf' = buf \/ PollNextReady)

\* C6: every received frame with a list of k trades puts exactly k events at
\* the back of the queue, in list order, each with the frame's market, and
\* next() hands out the front of the queue, so the k events leave before
\* those of any later frame.
C6_TradesBatchInOrder ==
    [][/\ \A f \in FramesData : f.data.kind = "Trades" =>
             /\ (\E ok \in BOOLEAN : WaitRecv(f, ok)) => buf' = buf \o TradeEvents(f)
             /\ PollNextRecv(f) =>
                   (result' = "Event" /\ <<out'>> \o buf' = buf \o TradeEvents(f))
       /\ QueueIsFifo]_vars

\* C6 as amended: a frame with a list of k trades that is neither a pong nor
\* the confirmation a wait is waiting for puts exactly k events at the back
\* of the queue, in list order, each with the frame's market; a pong and the
\* awaited confirmation put none; the queue is first in, first out, so what
\* next() delivers and what the queue holds are, in arrival order, the
\* records of the frames that were demultiplexed.
C6_DemultiplexedTradesInOrder ==
    /\ [][/\ \A f \in FramesData : f.data.kind = "Trades" =>
                 /\ (\E ok \in BOOLEAN : WaitRecv(f, ok)) =>
                        buf' = IF f.type = "Pong" \/ Expected(f)
                               THEN buf ELSE buf \o TradeEvents(f)
                 /\ PollNextRecv(f) =>
                        IF f.type = "Pong"
                        THEN buf' = buf /\ result' = "Pending"
                        ELSE /\ result' = "Event"
                             /\ <<out'>> \o buf' = buf \o TradeEvents(f)
           /\ QueueIsFifo]_vars
    /\ [](inOrder /\ buf = owed)

C6_Witness ==
    /\ result = "Event"
    /\ out = Event("BTC-PERP", "Trade", 2)
    /\ buf = <<Event(NoMarket, "Fill", 3)>>

\* C7: the events next() has delivered are a prefix of the payload records of
\* all frames received with a payload, in arrival order.
C7_PrefixOfAllPayloads == allInOrder

\* C7 as amended: the events next() has delivered are a prefix of the payload
\* records, in arrival order, of the received frames other than pongs and the
\* confirmations a wait was waiting for; the queue holds the rest of them.
C7_PrefixOfDemultiplexed == inOrder /\ buf = owed

C7_Witness ==
    /\ ~allInOrder
    /\ result = "Event"
    /\ out = Event("BTC-PERP", "Trade", 2)
    /\ buf = <<Event("BTC-PERP", "Ticker", 4)>>

\* C8: no record of a pong frame is in the queue or is the event delivered.
PongEvents == UNION {RangeOf(RecordsOf(f)) : f \in {g \in FramesData : g.type = "Pong"}}

C8_NoPongEvent == \A e \in PongEvents : e \notin RangeOf(buf) /\ out # e

C8_Witness ==
    /\ pc = "wait"
    /\ skipped > 0
    /\ \E e \in PongEvents : e \in RangeOf(owedAll)

\* C9: a confirmation wait that has read 100 inbound messages without the
\* confirmation has failed with MissingSubscriptionConfirmation, and fails
\* with it only then.
C9_HundredInboundFrames ==
    /\ pc = "wait" => count + skipped < ConfirmationAttempts
    /\ (pc = "idle" /\ result = "MissingSubscriptionConfirmation") =>
            count = ConfirmationAttempts

\* C9 as amended: the 100 are the decoded text frames that are neither pongs
\* nor the confirmation; the wait goes on while fewer of them were read and
\* fails with MissingSubscriptionConfirmation on the 100th.
C9_HundredResponses ==
    /\ pc = "wait" => count < ConfirmationAttempts
    /\ (pc = "idle" /\ result = "MissingSubscriptionConfirmation") =>
            count = ConfirmationAttempts

C9_Witness ==
    /\ pc = "idle"
    /\ result = "MissingSubscriptionConfirmation"
    /\ count = ConfirmationAttempts

\* The queue loses an event only as the front event that next() delivers.
QueueKeeps ==
    /\ pc = "wait" => IsPrefix(buf, buf')
    /\ (pc = "idle" /\ buf # <<>> /\ buf' # buf) =>
            (call' = "next" /\ result' = "Event" /\ <<out'>> \o buf' = buf)

\* C10: every frame a confirmation wait reads that is not its confirmation
\* has all its payload records put in the queue, which keeps them until
\* next() delivers them.
C10_WaitKeepsEveryFrame ==
    [][/\ \A f \in FramesData, ok \in BOOLEAN :
             (WaitRecv(f, ok) /\ ~Expected(f)) => buf' = buf \o RecordsOf(f)
       /\ QueueKeeps]_vars

\* C10 as amended: the same of every frame that is neither the confirmation
\* nor a pong.
C10_WaitKeepsDemultiplexed ==
    [][/\ \A f \in FramesData, ok \in BOOLEAN :
             (WaitRecv(f, ok) /\ ~Expected(f) /\ f.type # "Pong") =>
                 buf' = buf \o RecordsOf(f)
       /\ QueueKeeps]_vars

C10_Witness ==
    /\ pc = "idle"
    /\ result = "MissingSubscriptionConfirmation"
    /\ buf = <<Event("BTC-PERP", "Trade", 1), Event("BTC-PERP", "Trade", 2)>>

\* C11: when a subscribe or unsubscribe call has returned
\* MissingSubscriptionConfirmation for the channel at position idx, every
\* channel before that position, whose confirmation the call had received, is
\* in the channels Vec.
C11_ConfirmedChannelsActive ==
    (pc = "idle" /\ result = "MissingSubscriptionConfirmation") =>
        \A i \in 1..(idx - 1) : contains(channels, req[i])

C11_Witness ==
    /\ pc = "idle"
    /\ call = "subscribe"
    /\ result = "MissingSubscriptionConfirmation"
    /\ Len(req) = 2
    /\ idx = 2

\* C12: when the call has returned MissingSubscriptionConfirmation for the
\* channel at position idx, the op frames it sent are those of the channels
\* up to idx, one each and in order, and none of a later channel.
C12_NoOpFrameAfterTimeout ==
    (pc = "idle" /\ result = "MissingSubscriptionConfirmation") =>
        /\ idx \in 1..Len(req)
        /\ sent = [j \in 1..idx |-> OpFrame(OpOf(call), req[j])]

C12_Witness ==
    /\ pc = "idle"
    /\ result = "MissingSubscriptionConfirmation"
    /\ Len(req) = 2
    /\ idx = 1
    /\ req[1] # req[2]

\* C13: unsubscribe_all sends one unsubscribe op frame for each channel of the
\* active set; after success the Vec is empty, after a failure it is what it
\* was, and with nothing active the call succeeds and sends nothing.
C13_UnsubscribeAllPerChannel ==
    (pc = "idle" /\ call = "unsubscribe_all") =>
        /\ result = "Ok" =>
              /\ channels = <<>>
              /\ Len(sent) = Cardinality(RangeOf(prior))
              /\ RangeOf(sent) =
                     {OpFrame("unsubscribe", c) : c \in RangeOf(prior)}
        /\ result # "Ok" => channels = prior
        /\ prior = <<>> => (result = "Ok" /\ sent = <<>>)

\* A next() call that reads the network: a frame, a message that is not text,
\* an error or the end of the stream.
PollNextReads ==
    \/ \E f \in FramesData : PollNextRecv(f)
    \/ PollNextOther
    \/ \E e \in Errors : PollNextErr(e)
    \/ PollNextEnd

\* C14: after a next() call that returned a transport or decode error, a
\* next() call neither returns an event nor reads the network.
C14_ErrorIsTerminal ==
    [][(pc = "idle" /\ call = "next" /\ result \in Errors) =>
           ~(PollNextReady \/ PollNextReads)]_vars

\* C15: a next() call that finds the queue empty and reads the end of the
\* stream returns EndOfStream, and once the stream has ended next() serves no
\* keepalive tick.
C15_EndOfStreamReturned ==
    [][/\ PollNextEnd => result' = "EndOfStream"
       /\ closed => ~(\E ok \in BOOLEAN : PollNextTick(ok))]_vars

\* A confirmation wait reads the network.
WaitReads ==
    \/ \E f \in FramesData, ok \in BOOLEAN : WaitRecv(f, ok)
    \/ WaitOther
    \/ \E e \in Errors : WaitErr(e)

C17_TickKeepsSetAndQueue ==
    [][\A ok \in BOOLEAN :
          (WaitTick(ok) \/ PollNextTick(ok)) =>
              (channels' = channels /\ buf' = buf)]_vars

C17_Witness ==
    /\ pc = "wait"
    /\ pings = 1
    /\ count = 0
    /\ buf # <<>>

\* C18: no record of a frame of type subscribed or unsubscribed is in the
\* queue or is the event delivered.
ConfirmationEvents ==
    UNION {RangeOf(RecordsOf(f)) :
              f \in {g \in FramesData : g.type \in {"Subscribed", "Unsubscribed"}}}

C18_NoConfirmationEvent ==
    \A e \in ConfirmationEvents : e \notin RangeOf(buf) /\ out # e

\* C19: is_authenticated is TRUE exactly when connect was given credentials,
\* and no step changes it.
C19_AuthenticatedIffCredentials ==
    /\ [](is_authenticated = key_secret)
    /\ [][is_authenticated' = is_authenticated]_vars

C19_Witness ==
    /\ is_authenticated
    /\ pc = "idle"
    /\ call = "subscribe"
    /\ result = "Ok"
    /\ contains(channels, Fills)

\* C20: connect sends the login frame, as its only frame and without reading
\* anything, exactly when it was given credentials; no later call sends a
\* login frame, and every op frame and ping is sent by a later call.
C20_LoginFirstAndOnce ==
    /\ call = "connect" =>
          /\ sent = (IF key_secret THEN <<LoginFrame>> ELSE <<>>)
          /\ pc = "idle" /\ result = "Ok"
          /\ pings = 0 /\ count = 0 /\ buf = <<>>
    /\ call # "connect" => ~contains(sent, LoginFrame)

C20_Witness ==
    /\ key_secret
    /\ pc = "wait"
    /\ call = "subscribe"
    /\ Len(sent) = 2

\* C21: the op frames a call has sent are those of the first positions of its
\* request, one for each position and in request order; while the call waits,
\* the last of them is the only one not yet confirmed; the next op frame is
\* sent by the step that receives the awaited confirmation and by no other.
C21_OneChannelAtATime ==
    /\ [](call \in {"subscribe", "unsubscribe", "unsubscribe_all"} =>
             /\ Len(sent) <= Len(req)
             /\ sent = [j \in 1..Len(sent) |-> OpFrame(OpOf(call), req[j])]
             /\ pc = "wait" => (idx = Len(sent) /\ idx >= 1))
    /\ [][(pc = "wait" /\ sent' # sent) =>
             /\ \E f \in FramesCtl : Expected(f) /\ WaitRecv(f, TRUE)
             /\ pc' = "wait"
             /\ idx' = idx + 1
             /\ sent' = Append(sent, OpFrame(OpOf(call), req[idx + 1]))]_vars

C21_Witness ==
    /\ pc = "wait"
    /\ call = "unsubscribe"
    /\ idx = 2
    /\ Len(sent) = 2

\* C22: a frame read by a confirmation wait completes the current channel
\* exactly when its type is the one awaited, whatever market it names; a
\* frame of the other confirmation type is demultiplexed and uses up one
\* attempt.
C22_MatchedByTypeOnly ==
    [][\A f \in FramesCtl, ok \in BOOLEAN :
          WaitRecv(f, ok) =>
              IF Expected(f)
              THEN /\ buf' = buf
                   /\ count' = 0
                   /\ \/ idx < Len(req) /\ ok /\ pc' = "wait" /\ idx' = idx + 1
                      \/ idx < Len(req) /\ ~ok /\ result' = "TransportError"
                      \/ idx = Len(req) /\ pc' = "idle" /\ result' = "Ok"
              ELSE /\ buf' = buf \o RecordsOf(f)
                   /\ sent' = sent
                   /\ \/ pc' = "wait" /\ idx' = idx /\ count' = count + 1
                      \/ /\ pc' = "idle"
                         /\ result' = "MissingSubscriptionConfirmation"]_vars

C22_Witness ==
    /\ pc = "idle"
    /\ call = "subscribe"
    /\ result = "Ok"
    /\ req = <<Fills>>

\* C23: a timer tick that is served sends exactly one ping, and a ping is
\* sent by no other step; the tick leaves the queue and the record of what
\* was received and is still to be delivered as they were, so the frames
\* read before and after it are delivered once each and in arrival order.
C23_OnePingPerTick ==
    /\ [][/\ \A ok \in BOOLEAN :
               /\ WaitTick(ok) => pings' = pings + (IF ok THEN 1 ELSE 0)
               /\ PollNextTick(ok) => pings' = (IF ok THEN 1 ELSE 0)
               /\ (WaitTick(ok) \/ PollNextTick(ok)) =>
                      /\ buf' = buf
                      /\ UNCHANGED <<owed, inOrder, owedAll, allInOrder>>
          /\ pings' > pings =>
                 \E ok \in BOOLEAN : WaitTick(ok) \/ PollNextTick(ok)]_vars
    /\ [](inOrder /\ buf = owed)

C23_Witness ==
    /\ pc = "wait"
    /\ pings = 1
    /\ count > 0
    /\ owed # <<>>

\* C24: a transport or decode error read by a confirmation wait, or the
\* failure of a ping sent by it, ends that call with the error; read by
\* next(), or with a ping of next() failing, it is the result of that next();
\* in both cases the queue stays as it was.
C24_ErrorReturnedToCaller ==
    [][/\ \A e \in Errors :
            /\ WaitErr(e) =>
                  (pc' = "idle" /\ call' = call /\ result' = e /\ buf' = buf)
            /\ PollNextErr(e) =>
                  (pc' = "idle" /\ call' = "next" /\ result' = e /\ buf' = buf)
       /\ WaitTick(FALSE) =>
             /\ pc' = "idle" /\ call' = call
             /\ result' = "TransportError" /\ buf' = buf
       /\ PollNextTick(FALSE) =>
             /\ pc' = "idle" /\ call' = "next"
             /\ result' = "TransportError" /\ buf' = buf]_vars

C24_Witness ==
    /\ pc = "idle"
    /\ call = "subscribe"
    /\ result = "DecodeError"
    /\ buf # <<>>

\* C25: handle_response of any frame leaves what the queue holds in place and
\* appends one event for each payload record of the frame, none for a frame
\* without payload, each with the market of the frame and in record order.
C25_QueueGrowsByRecords ==
    \A f \in FramesData \cup FramesCtl :
        LET b == handle_response(buf, f)
            k == Len(f.data.recs)
        IN  /\ Len(b) = Len(buf) + k
            /\ SubSeq(b, 1, Len(buf)) = buf
            /\ f.data = NoData => k = 0
            /\ f.data.kind \notin {"None", "Trades"} => k = 1
            /\ \A i \in 1..k :
                   /\ b[Len(buf) + i].market = f.market
                   /\ b[Len(buf) + i].rec = f.data.recs[i]

C25_Witness ==
    /\ pc = "wait"
    /\ count = 1
    /\ buf = <<Event("BTC-PERP", "Trade", 1), Event("BTC-PERP", "Trade", 2)>>

\* C26: a call that has sent an op frame and waits for the confirmation
\* returns, as long as the stream has not ended.
C26_CallReturns == (pc = "wait") ~> (pc = "idle" \/ closed)

C26_Witness ==
    /\ pc = "idle"
    /\ call = "unsubscribe"
    /\ result = "MissingSubscriptionConfirmation"
    /\ pings = 1

\* The events the frames can put in the queue.
QueueEvents == UNION {RangeOf(RecordsOf(f)) : f \in FramesQueue}

\* C29: next() called with events in the queue returns the oldest of them,
\* sends no ping and reads nothing; and with a consumer that keeps calling
\* next(), every event in the queue is delivered.
C29_QueuedEventDelivered ==
    /\ [][(pc = "idle" /\ buf # <<>> /\ call' = "next") =>
             /\ result' = "Event"
             /\ out' = Head(buf)
             /\ buf' = Tail(buf)
             /\ pings' = 0
             /\ sent' = <<>>
             /\ closed' = closed
             /\ Len(owedAll') <= Len(owedAll)]_vars
    /\ \A e \in QueueEvents :
           contains(buf, e) ~> (call = "next" /\ result = "Event" /\ out = e)

C29_Witness ==
    /\ pc = "idle"
    /\ call = "next"
    /\ result = "Event"
    /\ out = Event(NoMarket, "Fill", 3)
    /\ buf = <<Event(NoMarket, "Fill", 3)>>

\* C27: after a subscribe call that failed with
\* MissingSubscriptionConfirmation or with a transport or decode error, every
\* channel in the Vec was there before the call or is a channel of the
\* request that the call can have had confirmed: one before the position that
\* timed out, or one whose op frame was sent when the error came.
C27_OnlyConfirmedChannels ==
    (/\ pc = "idle"
     /\ call = "subscribe"
     /\ result \in {"MissingSubscriptionConfirmation"} \cup Errors) =>
        LET k == IF result = "MissingSubscriptionConfirmation"
                 THEN idx - 1 ELSE Len(sent)
        IN  \A c \in RangeOf(channels) :
                \/ c \in RangeOf(prior)
                \/ \E i \in 1..k : req[i] = c

\* C28: a pong and a message that is not text, read by a confirmation wait,
\* leave the count of attempts as it is and the wait goes on; every other
\* frame that is not the confirmation adds one to the count or, as the
\* hundredth, fails the call.
C28_SkippedFramesNotCounted ==
    [][/\ (WaitOther \/ \E f \in FramesData, ok \in BOOLEAN :
                            f.type = "Pong" /\ WaitRecv(f, ok)) =>
             (count' = count /\ pc' = "wait" /\ skipped' = skipped + 1)
       /\ \A f \in FramesData, ok \in BOOLEAN :
             (f.type # "Pong" /\ ~Expected(f) /\ WaitRecv(f, ok)) =>
                 \/ count' = count + 1 /\ pc' = "wait" /\ skipped' = skipped
                 \/ /\ count' = ConfirmationAttempts
                    /\ result' = "MissingSubscriptionConfirmation"]_vars

C28_Witness ==
    /\ pc = "wait"
    /\ count = ConfirmationAttempts - 1
    /\ skipped = 1
    /\ buf = <<>>

====
